---- MODULE Spec2Model ----
(***************************************************************************)
(* skrobot.coordinates.base: Coordinates / CascadedCoords.                 *)
(*                                                                         *)
(* A CascadedCoords node holds a local pose (_rotation, _translation), a   *)
(* parent link (_parent), a registry of children (_descendants), a dirty   *)
(* flag (_changed) and a cached world pose (_worldcoords).  Rotations are  *)
(* 3x3 integer matrices (the 24 axis-aligned rotations are exact in        *)
(* floating point), translations are integer 3-vectors.  A plain           *)
(* Coordinates object holds a pose only: it is its own world pose.         *)
(***************************************************************************)
EXTENDS Integers, Sequences, FiniteSets, TLC

VARIABLES parent, descendants, changed, rotation, translation, worldcoords,
          nupdate, ret, last, steps

vars == <<parent, descendants, changed, rotation, translation, worldcoords,
          nupdate, ret, last, steps>>

(* The objects of the scenario: three CascadedCoords instances. *)
Nodes == {"a", "b", "c"}
NodeOrder == <<"a", "b", "c">>
(* ... and one plain Coordinates instance. *)
Plain == {"k"}
Objects == Nodes \cup Plain
None == "None"

(* Number of operations called after construction. *)
MaxSteps == 3

(***************************************************************************)
(* numpy: np.dot / np.matmul / .T on 3x3 matrices and 3-vectors            *)
(***************************************************************************)
Dot3(A, i, B, j) == A[i][1] * B[1][j] + A[i][2] * B[2][j] + A[i][3] * B[3][j]

MatMul(A, B) ==
    <<<<Dot3(A, 1, B, 1), Dot3(A, 1, B, 2), Dot3(A, 1, B, 3)>>,
      <<Dot3(A, 2, B, 1), Dot3(A, 2, B, 2), Dot3(A, 2, B, 3)>>,
      <<Dot3(A, 3, B, 1), Dot3(A, 3, B, 2), Dot3(A, 3, B, 3)>>>>

RowDot(A, i, v) == A[i][1] * v[1] + A[i][2] * v[2] + A[i][3] * v[3]

MatVec(A, v) == <<RowDot(A, 1, v), RowDot(A, 2, v), RowDot(A, 3, v)>>

Transpose(A) ==
    <<<<A[1][1], A[2][1], A[3][1]>>,
      <<A[1][2], A[2][2], A[3][2]>>,
      <<A[1][3], A[2][3], A[3][3]>>>>

VecAdd(u, v) == <<u[1] + v[1], u[2] + v[2], u[3] + v[3]>>

VecNeg(v) == <<0 - v[1], 0 - v[2], 0 - v[3]>>

Eye == <<<<1, 0, 0>>, <<0, 1, 0>>, <<0, 0, 1>>>>
Zero3 == <<0, 0, 0>>

(* rotation_matrix(pi/2, 'x'), rotation_matrix(pi/2, 'z') *)
RotX == <<<<1, 0, 0>>, <<0, 0, -1>>, <<0, 1, 0>>>>
RotZ == <<<<0, -1, 0>>, <<1, 0, 0>>, <<0, 0, 1>>>>

(* A Coordinates value: rotation and translation. *)
Pose(R, t) == [rot |-> R, pos |-> t]
Identity == Pose(Eye, Zero3)

(* transform_coords(c1, c2): c1 applied to c2 from the left. *)
transform_coords(c1, c2) ==
    Pose(MatMul(c1.rot, c2.rot), VecAdd(c1.pos, MatVec(c1.rot, c2.pos)))

(* An inverse that transposes the rotation and keeps the translation. *)
InverseKeepsTranslation(c) == Pose(Transpose(c.rot), c.pos)

(* Coordinates.inverse_transformation *)
inverse_transformation(c) ==
    LET Rt == Transpose(c.rot)
    IN  Pose(Rt, VecNeg(MatVec(Rt, c.pos)))

(***************************************************************************)
(* The object graph as one value: H.parent[n], H.descendants[n] (a list),  *)
(* H.changed[n], H.local[n] (local pose), H.world[n] (the _worldcoords     *)
(* cache), H.nupdate (how many times the body of update() ran in the       *)
(* current call).                                                          *)
(***************************************************************************)
Heap == [parent |-> parent, descendants |-> descendants, changed |-> changed,
         local |-> [n \in Objects |-> Pose(rotation[n], translation[n])],
         world |-> worldcoords, nupdate |-> 0]

InSeq(x, s) == \E i \in 1..Len(s) : s[i] = x

(* list.remove(x): drops the first occurrence. *)
(* A remove that leaves the list as it is. *)
SeqRemoveNothing(s, x) == s

RECURSIVE SeqRemove(_, _)
SeqRemove(s, x) ==
    IF s = <<>> THEN <<>>
    ELSE IF Head(s) = x THEN Tail(s)
    ELSE <<Head(s)>> \o SeqRemove(Tail(s), x)

(***************************************************************************)
(* CascadedCoords.update / worldcoords                                     *)
(***************************************************************************)
(* update() recurses into self._parent.worldcoords() while the nodes on    *)
(* the way are dirty.  When the parent links loop through dirty nodes only *)
(* the recursion has no end: Python raises RecursionError, and no          *)
(* assignment of update() has run.                                         *)
RECURSIVE UpdateEnds(_, _, _)
UpdateEnds(H, n, fuel) ==
    IF ~H.changed[n] THEN TRUE
    ELSE IF H.parent[n] = None THEN TRUE
    ELSE IF fuel = 0 THEN FALSE
    ELSE UpdateEnds(H, H.parent[n], fuel - 1)

Terminates(H, n) == UpdateEnds(H, n, Cardinality(Nodes))

(* An update that takes the parent's cache as it is, without asking the *)
(* parent for its world pose.                                           *)
UpdateFromParentCache(H, n) ==
    IF ~H.changed[n] THEN H
    ELSE [H EXCEPT !.world[n] = IF H.parent[n] # None
                                THEN transform_coords(H.world[H.parent[n]],
                                                      H.local[n])
                                ELSE H.local[n],
                   !.changed[n] = FALSE,
                   !.nupdate = @ + 1]

RECURSIVE update(_, _)
update(H, n) ==
    IF ~H.changed[n] THEN H
    ELSE IF H.parent[n] # None
         THEN LET H1 == update(H, H.parent[n])
              IN  [H1 EXCEPT
                     !.world[n] = transform_coords(H1.world[H1.parent[n]],
                                                   H1.local[n]),
                     !.changed[n] = FALSE,
                     !.nupdate = @ + 1]
         ELSE [H EXCEPT !.world[n] = H.local[n],
                        !.changed[n] = FALSE,
                        !.nupdate = @ + 1]

(* The result of a call: the heap it leaves, whether it returned (ok) or   *)
(* raised (err names the exception), and the value it returned.            *)
Ret(H, v) == [h |-> H, ok |-> TRUE, err |-> "", val |-> v]
Raise(H, e) == [h |-> H, ok |-> FALSE, err |-> e, val |-> Identity]

(* n.worldcoords(): update, then the cache. *)
(* A read that recomputes n even when n is clean. *)
WorldCoordsForced(H, n) ==
    LET H0 == [H EXCEPT !.changed[n] = TRUE]
    IN  IF UpdateEnds(H0, n, Cardinality(Nodes))
        THEN LET H1 == update(H0, n) IN Ret(H1, H1.world[n])
        ELSE Raise(H, "RecursionError")

(* Coordinates.worldcoords(): the object itself (no hook is installed). *)
Coordinates_worldcoords(H, n) == Ret(H, H.local[n])

WorldCoords(H, n) ==
    IF n \in Plain THEN Coordinates_worldcoords(H, n)
    ELSE IF Terminates(H, n)
    THEN LET H1 == update(H, n) IN Ret(H1, H1.world[n])
    ELSE Raise(H, "RecursionError")

(* parentcoords(): the parent's worldcoords(), or the module-level         *)
(* `worldcoords` object (identity) for a node without parent.              *)
ParentCoords(H, n) ==
    IF H.parent[n] # None THEN WorldCoords(H, H.parent[n])
    ELSE Ret(H, Identity)

(***************************************************************************)
(* CascadedCoords.changed                                                  *)
(***************************************************************************)
(* changed() that sets the flag of n alone and leaves n's descendants. *)
MarkChangedSelfOnly(H, n) == [H EXCEPT !.changed[n] = TRUE]

RECURSIVE MarkChanged(_, _)
RECURSIVE MarkChangedAll(_, _)
MarkChanged(H, n) ==
    IF H.changed[n] = FALSE
    THEN MarkChangedAll([H EXCEPT !.changed[n] = TRUE], H.descendants[n])
    ELSE H

MarkChangedAll(H, s) ==
    IF s = <<>> THEN H
    ELSE MarkChangedAll(MarkChanged(H, Head(s)), Tail(s))

(***************************************************************************)
(* CascadedCoords.newcoords with relative_coords='local' (every internal   *)
(* caller): Coordinates.newcoords stores the pose, then changed().         *)
(***************************************************************************)
(* newcoords tail that stores the pose and does not call changed(). *)
SetLocalUnmarked(H, n, c) == [H EXCEPT !.local[n] = c]

SetLocal(H, n, c) == MarkChanged([H EXCEPT !.local[n] = c], n)

(* An assignment to _rotation / _translation alone: Coordinates.newcoords, *)
(* or transform_coords(.., .., out) writing into out.                      *)
StoreLocal(H, n, c) == [H EXCEPT !.local[n] = c]

(***************************************************************************)
(* The rotation and translation property setters of Coordinates, which     *)
(* CascadedCoords inherits unchanged: validate, then assign the attribute. *)
(* Neither calls changed().                                                *)
(***************************************************************************)
(* math._check_valid_translation: a translation has three components. *)
ValidTranslation(v) == Len(v) = 3

(* obj.rotation = R, for a rotation matrix R *)
set_rotation(H, n, R) ==
    Ret([H EXCEPT !.local[n] = Pose(R, @.pos)], Identity)

(* obj.translation = v *)
set_translation(H, n, v) ==
    IF ValidTranslation(v)
    THEN Ret([H EXCEPT !.local[n] = Pose(@.rot, v)], Identity)
    ELSE Raise(H, "ValueError")

(***************************************************************************)
(* Coordinates.translate (inherited by CascadedCoords)                     *)
(***************************************************************************)
(* parent_orientation(v, wrt): the vector v of frame wrt, seen from the    *)
(* parent frame.                                                           *)
parent_orientation(H, n, v, wrt) ==
    IF wrt = "local" \/ wrt = n THEN Ret(H, MatVec(H.local[n].rot, v))
    ELSE IF wrt = "parent" \/ wrt = H.parent[n] \/ wrt = "world" THEN Ret(H, v)
    ELSE IF wrt \in Objects
         THEN LET r == WorldCoords(H, wrt)
              IN  IF r.ok THEN Ret(r.h, MatVec(r.val.rot, v))
                  ELSE Raise(r.h, r.err)
    ELSE Raise(H, "ValueError")

translate(H, n, v, wrt) ==
    LET r == parent_orientation(H, n, v, wrt)
    IN  IF ~r.ok THEN Raise(r.h, r.err)
        ELSE Ret(SetLocal(r.h, n, Pose(r.h.local[n].rot,
                                       VecAdd(r.val, r.h.local[n].pos))),
                 Identity)

(* translate on a plain Coordinates: its newcoords only assigns. *)
Coordinates_translate(H, n, v, wrt) ==
    LET r == parent_orientation(H, n, v, wrt)
    IN  IF ~r.ok THEN Raise(r.h, r.err)
        ELSE Ret(StoreLocal(r.h, n, Pose(r.h.local[n].rot,
                                         VecAdd(r.val, r.h.local[n].pos))),
                 Identity)

(***************************************************************************)
(* CascadedCoords.rotate_with_matrix / rotate / orient_with_matrix         *)
(***************************************************************************)
WithRot(H, n, R) == Ret(SetLocal(H, n, Pose(R, H.local[n].pos)), Identity)

rotate_with_matrix(H, n, matrix, wrt) ==
    IF wrt = "local" \/ wrt = n
    THEN WithRot(H, n, MatMul(H.local[n].rot, matrix))
    ELSE IF wrt = "parent" \/ wrt = H.parent[n]
    THEN WithRot(H, n, MatMul(matrix, H.local[n].rot))
    ELSE LET pc == ParentCoords(H, n)
         IN  IF ~pc.ok THEN Raise(pc.h, pc.err)
             ELSE LET parent_rot == pc.val.rot
                      w  == IF wrt \in Objects THEN WorldCoords(pc.h, wrt)
                            ELSE Ret(pc.h, Identity)
                      m1 == IF wrt \in Objects
                            THEN MatMul(MatMul(w.val.rot, matrix),
                                        Transpose(w.val.rot))
                            ELSE matrix
                      m2 == MatMul(Transpose(parent_rot), MatMul(m1, parent_rot))
                  IN  IF ~w.ok THEN Raise(w.h, w.err)
                      ELSE WithRot(w.h, n, MatMul(m2, w.h.local[n].rot))

(* An axis is a name ('x', 'z') or an explicit vector, written here as   *)
(* its list literal.                                                     *)
AxisVectors == {"[1, 0, 0]", "[0, 0, 1]"}

(* math.rotation_matrix(pi / 2, axis) *)
AxisRot(axis) == IF axis \in {"x", "[1, 0, 0]"} THEN RotX ELSE RotZ

(* math.rotate_matrix(matrix, pi / 2, axis, world) *)
rotate_matrix(matrix, axis, world) ==
    IF world THEN MatMul(AxisRot(axis), matrix)
    ELSE MatMul(matrix, AxisRot(axis))

(* Coordinates.rotate_with_matrix(mat, wrt), on a plain Coordinates *)
Coordinates_rotate_with_matrix(H, n, mat, wrt) ==
    IF wrt = "local" \/ wrt = n
    THEN Ret(StoreLocal(H, n, Pose(MatMul(H.local[n].rot, mat), H.local[n].pos)),
             Identity)
    ELSE IF wrt = "parent" \/ wrt = "world"
    THEN Ret(StoreLocal(H, n, Pose(MatMul(mat, H.local[n].rot), H.local[n].pos)),
             Identity)
    ELSE IF wrt \in Objects
    THEN LET w == WorldCoords(H, wrt)
         IN  IF ~w.ok THEN Raise(w.h, w.err)
             ELSE LET r2 == w.val.rot
                      m  == MatMul(r2, MatMul(mat, Transpose(r2)))
                  IN  Ret(StoreLocal(w.h, n,
                              Pose(MatMul(m, w.h.local[n].rot),
                                   w.h.local[n].pos)),
                          Identity)
    ELSE Raise(H, "ValueError")

(* Coordinates.rotate(pi / 2, axis, wrt), on a plain Coordinates *)
Coordinates_rotate(H, n, axis, wrt) ==
    IF axis \in AxisVectors
    THEN Coordinates_rotate_with_matrix(H, n, AxisRot(axis), wrt)
    ELSE IF wrt = "local" \/ wrt = n
    THEN Ret(StoreLocal(H, n, Pose(rotate_matrix(H.local[n].rot, axis, FALSE),
                                   H.local[n].pos)),
             Identity)
    ELSE IF wrt = "parent" \/ wrt = "world"
    THEN Ret(StoreLocal(H, n, Pose(rotate_matrix(H.local[n].rot, axis, TRUE),
                                   H.local[n].pos)),
             Identity)
    ELSE IF wrt \in Objects
    THEN Coordinates_rotate_with_matrix(H, n, AxisRot(axis), wrt)
    ELSE Raise(H, "ValueError")

(* CascadedCoords.rotate(pi / 2, axis, wrt) *)
rotate(H, n, axis, wrt) ==
    IF axis \in AxisVectors
    THEN rotate_with_matrix(H, n, AxisRot(axis), wrt)
    ELSE IF wrt = "local" \/ wrt = n
    THEN WithRot(H, n, rotate_matrix(H.local[n].rot, axis, FALSE))
    ELSE IF wrt = "parent" \/ wrt = H.parent[n]
    THEN WithRot(H, n, rotate_matrix(H.local[n].rot, axis, FALSE))
    ELSE rotate_with_matrix(H, n, AxisRot(axis), wrt)

orient_with_matrix(H, n, matrix, wrt) ==
    IF wrt = "local" \/ wrt = n
    THEN WithRot(H, n, MatMul(H.local[n].rot, matrix))
    ELSE IF wrt = "parent" \/ wrt = H.parent[n]
    THEN WithRot(H, n, matrix)
    ELSE IF wrt = "world"
    THEN LET pc == ParentCoords(H, n)
         IN  IF ~pc.ok THEN Raise(pc.h, pc.err)
             ELSE WithRot(pc.h, n, MatMul(Transpose(pc.val.rot), matrix))
    ELSE IF wrt \in Objects
    THEN LET w == WorldCoords(H, wrt)
         IN  IF ~w.ok THEN Raise(w.h, w.err)
             ELSE LET pc == ParentCoords(w.h, n)
                  IN  IF ~pc.ok THEN Raise(pc.h, pc.err)
                      ELSE WithRot(pc.h, n,
                                   MatMul(Transpose(pc.val.rot),
                                          MatMul(w.val.rot, matrix)))
    ELSE Raise(H, "TypeError")

(***************************************************************************)
(* CascadedCoords.transform(c, wrt) with out = self: every                 *)
(* transform_coords(.., out, out) writes self's local pose in place, and   *)
(* changed() runs only in the final newcoords.                             *)
(***************************************************************************)
transform(H, n, c, wrt) ==
    IF wrt \in Objects
    THEN LET pc == ParentCoords(H, n)
         IN  IF ~pc.ok THEN Raise(pc.h, pc.err)
             ELSE
             LET H1 == StoreLocal(pc.h, n, transform_coords(pc.val, pc.h.local[n]))
                 H2 == StoreLocal(H1, n,
                           transform_coords(inverse_transformation(H1.local[wrt]),
                                            H1.local[n]))
                 H3 == StoreLocal(H2, n, transform_coords(c, H2.local[n]))
                 w  == WorldCoords(H3, wrt)
             IN  IF ~w.ok THEN Raise(w.h, w.err)
                 ELSE
                 LET H4  == StoreLocal(w.h, n, transform_coords(w.val, w.h.local[n]))
                     pc2 == ParentCoords(H4, n)
                 IN  IF ~pc2.ok THEN Raise(pc2.h, pc2.err)
                     ELSE Ret(SetLocal(pc2.h, n,
                                 transform_coords(inverse_transformation(pc2.val),
                                                  pc2.h.local[n])),
                              Identity)
    ELSE IF wrt = "local"
    THEN Ret(SetLocal(H, n, transform_coords(H.local[n], c)), Identity)
    ELSE IF wrt = "parent"
    THEN Ret(SetLocal(H, n, transform_coords(c, H.local[n])), Identity)
    ELSE IF wrt = "world"
    THEN LET pc == ParentCoords(H, n)
         IN  IF ~pc.ok THEN Raise(pc.h, pc.err)
             ELSE Ret(SetLocal(pc.h, n,
                        transform_coords(inverse_transformation(pc.val),
                            transform_coords(c,
                                transform_coords(pc.val, pc.h.local[n])))),
                      Identity)
    ELSE Raise(H, "ValueError")

(***************************************************************************)
(* Coordinates.transform(c, wrt) with out = self, on a plain Coordinates.  *)
(* self.parent is None there, so only the tokens reach the second branch.  *)
(***************************************************************************)
Coordinates_transform(H, n, c, wrt) ==
    IF wrt = "local" \/ wrt = n
    THEN Ret(StoreLocal(H, n, transform_coords(H.local[n], c)), Identity)
    ELSE IF wrt = "parent" \/ wrt = "world"
    THEN Ret(StoreLocal(H, n, transform_coords(c, H.local[n])), Identity)
    ELSE IF wrt \in Objects
    THEN LET H1 == StoreLocal(H, n,
                       transform_coords(inverse_transformation(H.local[wrt]),
                                        H.local[n]))
             H2 == StoreLocal(H1, n, transform_coords(c, H1.local[n]))
             w  == WorldCoords(H2, wrt)
         IN  IF ~w.ok THEN Raise(w.h, w.err)
             ELSE Ret(StoreLocal(w.h, n, transform_coords(w.val, w.h.local[n])),
                      Identity)
    ELSE Raise(H, "ValueError")

(***************************************************************************)
(* Coordinates.transformation(c2, wrt), inherited by CascadedCoords: reads *)
(* both world poses and returns a new Coordinates.                         *)
(***************************************************************************)
transformation(H, n, c2, wrt) ==
    LET r2 == WorldCoords(H, c2)
    IN  IF ~r2.ok THEN Raise(r2.h, r2.err)
        ELSE
        LET r1 == WorldCoords(r2.h, n)
        IN  IF ~r1.ok THEN Raise(r1.h, r1.err)
            ELSE
            LET inv == inverse_transformation(r1.val)
            IN  IF wrt = "local" \/ wrt = n
                THEN Ret(r1.h, transform_coords(inv, r2.val))
                ELSE IF wrt = "parent" \/ wrt = r1.h.parent[n] \/ wrt = "world"
                THEN Ret(r1.h, transform_coords(r2.val, inv))
                ELSE IF wrt \in Objects
                THEN LET xw == WorldCoords(r1.h, wrt)
                     IN  IF ~xw.ok THEN Raise(xw.h, xw.err)
                         ELSE Ret(xw.h,
                                  transform_coords(
                                      transform_coords(
                                          inverse_transformation(xw.val),
                                          transform_coords(r2.val, inv)),
                                      xw.val))
                ELSE Raise(r1.h, "ValueError")

(***************************************************************************)
(* Coordinates.move_coords(target_coords, local_coords), inherited by      *)
(* CascadedCoords: self.transform(local.transformation(target), local),    *)
(* then return self.worldcoords().                                         *)
(***************************************************************************)
(* return self.worldcoords(), once transform has returned t *)
move_coords_return(n, t) ==
    IF ~t.ok THEN Raise(t.h, t.err) ELSE WorldCoords(t.h, n)

(* self.transform(d, local_coords), d being what transformation returned *)
move_coords_transform(n, loc, d) ==
    IF ~d.ok THEN Raise(d.h, d.err)
    ELSE move_coords_return(n,
             IF n \in Plain THEN Coordinates_transform(d.h, n, d.val, loc)
             ELSE transform(d.h, n, d.val, loc))

move_coords(H, n, target, loc) ==
    move_coords_transform(n, loc, transformation(H, loc, target, "local"))

(***************************************************************************)
(* CascadedCoords.newcoords(target, relative_coords=rel)                   *)
(***************************************************************************)
(* A newcoords that stores the target as the local pose whatever rel is. *)
NewcoordsAsLocal(H, n, target, rel) == Ret(SetLocal(H, n, target), Identity)

newcoords(H, n, target, rel) ==
    IF H.parent[n] = None THEN Ret(SetLocal(H, n, target), Identity)
    ELSE IF rel = "world"
    THEN LET pc == WorldCoords(H, H.parent[n])
         IN  IF ~pc.ok THEN Raise(pc.h, pc.err)
             ELSE Ret(SetLocal(pc.h, n,
                        transform_coords(inverse_transformation(pc.val), target)),
                      Identity)
    ELSE IF rel = "local" \/ rel = "parent"
    THEN Ret(SetLocal(H, n, target), Identity)
    ELSE IF rel \in Objects
    THEN LET w == WorldCoords(H, rel)
         IN  IF ~w.ok THEN Raise(w.h, w.err)
             ELSE Ret(SetLocal(w.h, n,
                        transform_coords(inverse_transformation(w.val), target)),
                      Identity)
    ELSE Raise(H, "ValueError")

(***************************************************************************)
(* The assignments that end Coordinates.newcoords with check_validity=True: *)
(* the rotation setter, then the translation setter.                        *)
(***************************************************************************)
Commit(H, n, c) ==
    LET r == set_rotation(H, n, c.rot)
    IN  set_translation(r.h, n, c.pos)

(* super().newcoords(...) followed by self.changed() *)
CommitChanged(H, n, c) ==
    LET r == Commit(H, n, c)
    IN  IF r.ok THEN Ret(MarkChanged(r.h, n), Identity) ELSE r

(***************************************************************************)
(* CascadedCoords.newcoords(rot, pos, check_validity=True,                 *)
(* relative_coords=rel): c holds the two arguments, of which pos may be    *)
(* malformed.  With a parent, 'world' and an object build                  *)
(* temp = Coordinates(pos, rot), which validates pos, before anything is   *)
(* read or assigned.                                                       *)
(***************************************************************************)
newcoords_pos(H, n, c, rel) ==
    IF H.parent[n] = None THEN CommitChanged(H, n, c)
    ELSE IF rel = "world"
    THEN IF ~ValidTranslation(c.pos) THEN Raise(H, "ValueError")
         ELSE
         LET pc == WorldCoords(H, H.parent[n])
         IN  IF ~pc.ok THEN Raise(pc.h, pc.err)
             ELSE CommitChanged(pc.h, n,
                      transform_coords(inverse_transformation(pc.val), c))
    ELSE IF rel = "local" \/ rel = "parent"
    THEN CommitChanged(H, n, c)
    ELSE IF rel \in Objects
    THEN IF ~ValidTranslation(c.pos) THEN Raise(H, "ValueError")
         ELSE
         LET w == WorldCoords(H, rel)
         IN  IF ~w.ok THEN Raise(w.h, w.err)
             ELSE CommitChanged(w.h, n,
                      transform_coords(inverse_transformation(w.val), c))
    ELSE Raise(H, "ValueError")

(***************************************************************************)
(* Coordinates.newcoords(c, relative_coords=rel) on a plain Coordinates,   *)
(* whose parent is None.  'world' multiplies by the module's worldcoords   *)
(* object, which sits at the identity; an object multiplies by its local   *)
(* pose (__mul__ is transform_coords on the attributes).                   *)
(***************************************************************************)
Coordinates_newcoords(H, n, c, rel) ==
    IF rel = "parent" THEN Raise(H, "ValueError")
    ELSE IF rel = "world" THEN Commit(H, n, transform_coords(Identity, c))
    ELSE IF rel = "local" THEN Commit(H, n, c)
    ELSE IF rel \in Objects THEN Commit(H, n, transform_coords(H.local[rel], c))
    ELSE Raise(H, "ValueError")

(* Coordinates.newcoords(rot, pos, check_validity=True, relative_coords=rel) *)
(* on a plain Coordinates: temp = Coordinates(pos, rot) validates pos when   *)
(* there is a reference frame.                                               *)
Coordinates_newcoords_pos(H, n, c, rel) ==
    IF rel = "parent" THEN Raise(H, "ValueError")
    ELSE IF rel = "local" THEN Commit(H, n, c)
    ELSE IF rel = "world" \/ rel \in Objects
    THEN IF ~ValidTranslation(c.pos) THEN Raise(H, "ValueError")
         ELSE Commit(H, n, transform_coords(IF rel = "world" THEN Identity
                                            ELSE H.local[rel], c))
    ELSE Raise(H, "ValueError")

(***************************************************************************)
(* CascadedCoords.assoc / dissoc                                           *)
(* rel: relative_coords 'world' (or None), 'local', or a Coordinates c.    *)
(***************************************************************************)
Attach(H, p, child, c) ==
    LET H1 == [H EXCEPT !.parent[child] = p]
        H2 == SetLocal(H1, child, c)
    IN  [H2 EXCEPT !.descendants[p] = Append(@, child)]

(* The argument checks assoc makes that never refuse a child that already *)
(* has a parent.                                                          *)
AssocCheckSelfOnly(H, p, child, force) ==
    IF p = child THEN "ValueError" ELSE ""

(* The argument checks of assoc: the error it raises, "" when it goes on. *)
AssocCheck(H, p, child, force) ==
    IF p = child THEN "ValueError"
    ELSE IF H.parent[child] # None /\ ~force THEN "RuntimeError"
    ELSE ""

assoc(H, p, child, rel, force) ==
    IF AssocCheck(H, p, child, force) # ""
    THEN Raise(H, AssocCheck(H, p, child, force))
    ELSE IF InSeq(child, H.descendants[p]) THEN Ret(H, Identity)
    ELSE IF rel.kind = "world"
    THEN LET r1 == WorldCoords(H, p)
         IN  IF ~r1.ok THEN Raise(r1.h, r1.err)
             ELSE LET r2 == WorldCoords(r1.h, child)
                  IN  IF ~r2.ok THEN Raise(r2.h, r2.err)
                      ELSE Ret(Attach(r2.h, p, child,
                                 transform_coords(
                                     inverse_transformation(r2.h.world[p]),
                                     r2.val)),
                               Identity)
    ELSE IF rel.kind = "local"
    THEN LET r == WorldCoords(H, child)
         IN  IF ~r.ok THEN Raise(r.h, r.err)
             ELSE Ret(Attach(r.h, p, child, r.val), Identity)
    ELSE Ret(Attach(H, p, child, rel.c), Identity)

(* A detachment that leaves child clean. *)
DetachClean(H, p, child, c) ==
    LET H1 == [H EXCEPT !.descendants[p] = SeqRemove(@, child),
                        !.parent[child] = None]
    IN  [SetLocal(H1, child, c) EXCEPT !.changed[child] = FALSE]

(* dissoc after its snapshot c of child's world pose: unregister, clear *)
(* the parent link, newcoords(c).                                      *)
Detach(H, p, child, c) ==
    LET H1 == [H EXCEPT !.descendants[p] = SeqRemove(@, child),
                        !.parent[child] = None]
    IN  SetLocal(H1, child, c)

dissoc(H, p, child) ==
    IF InSeq(child, H.descendants[p])
    THEN LET r == WorldCoords(H, child)
         IN  IF ~r.ok THEN Raise(r.h, r.err)
             ELSE Ret(Detach(r.h, p, child, r.val), Identity)
    ELSE Ret(H, Identity)

RelWorld == [kind |-> "world", c |-> Identity]
RelLocal == [kind |-> "local", c |-> Identity]
RelCoords(c) == [kind |-> "coords", c |-> c]

(***************************************************************************)
(* CascadedCoords.__init__(parent, pos, rot)                               *)
(***************************************************************************)
Blank ==
    [parent |-> [n \in Objects |-> None],
     descendants |-> [n \in Objects |-> <<>>],
     changed |-> [n \in Objects |-> n \in Nodes],
     local |-> [n \in Objects |-> Identity],
     world |-> [n \in Objects |-> Identity],
     nupdate |-> 0]

Construct(H, n, par, c) ==
    LET H1 == [H EXCEPT !.changed[n] = TRUE,
                        !.descendants[n] = <<>>,
                        !.local[n] = c,
                        !.world[n] = c,
                        !.parent[n] = par]
    IN  IF par # None THEN assoc(H1, par, n, RelWorld, TRUE).h ELSE H1

(* The poses the three objects are constructed with. *)
InitPose ==
    [n \in Nodes |->
        IF n = "a" THEN Pose(RotZ, <<1, 0, 0>>)
        ELSE IF n = "b" THEN Pose(RotX, <<0, 2, 0>>)
        ELSE Pose(Eye, <<0, 0, 3>>)]

(* Coordinates.__init__(pos, rot) of the plain object. *)
PlainPose == Pose(RotX, <<2, 1, 0>>)
ConstructPlain(H, k, c) == [H EXCEPT !.local[k] = c, !.parent[k] = None]

RECURSIVE ConstructAll(_, _, _)
ConstructAll(H, i, pars) ==
    IF i > Len(NodeOrder) THEN H
    ELSE ConstructAll(Construct(H, NodeOrder[i], pars[i], InitPose[NodeOrder[i]]),
                      i + 1, pars)

(* A constructor can only name an object that already exists as parent. *)
ParentChoices ==
    {pars \in [1..Len(NodeOrder) -> Nodes \cup {None}] :
        \A i \in 1..Len(NodeOrder) :
            pars[i] = None \/ \E j \in 1..(i - 1) : NodeOrder[j] = pars[i]}

(* The call made last: its name, receiver, other object (child), the     *)
(* wrt / relative_coords token it was given, force, whether child was in   *)
(* self._descendants when the call began (assoc, dissoc), and how it ended.*)
NoCall == [op |-> "init", self |-> None, other |-> None, mode |-> "",
           force |-> FALSE, reg |-> FALSE, arg |-> Identity,
           ok |-> TRUE, err |-> ""]

Init ==
    \E pars \in ParentChoices :
        LET H == ConstructPlain(ConstructAll(Blank, 1, pars), "k", PlainPose)
        IN  /\ parent = H.parent
            /\ descendants = H.descendants
            /\ changed = H.changed
            /\ rotation = [n \in Objects |-> H.local[n].rot]
            /\ translation = [n \in Objects |-> H.local[n].pos]
            /\ worldcoords = H.world
            /\ nupdate = 0
            /\ ret = Identity
            /\ last = NoCall
            /\ steps = 0

(***************************************************************************)
(* Calls                                                                   *)
(***************************************************************************)
(* Arguments the calls are made with. *)
Vecs == {<<1, 0, 2>>}
Axes == {"z"}
Mats == {RotX}
ArgCoords == {Pose(RotZ, <<0, 1, 0>>)}
Others(n) == Nodes \ {n}

(* relative_coords and force of an assoc call.  force only decides whether *)
(* an already parented child is refused, which does not depend on          *)
(* relative_coords, so force=False is called with the default only.        *)
AssocArgs ==
    {<<RelWorld, FALSE>>, <<RelWorld, TRUE>>, <<RelLocal, TRUE>>}
        \cup {<<RelCoords(c), TRUE>> : c \in ArgCoords}

(* What a call leaves: the heap of its result, the value it returned, and *)
(* the record of the call (arg: the pose it was given, if any).           *)
Effect(op, n, other, mode, force, arg, res) ==
    \E r \in {res} :
        /\ steps' = steps + 1
        /\ parent' = r.h.parent
        /\ descendants' = r.h.descendants
        /\ changed' = r.h.changed
        /\ rotation' = [x \in Objects |-> r.h.local[x].rot]
        /\ translation' = [x \in Objects |-> r.h.local[x].pos]
        /\ worldcoords' = r.h.world
        /\ nupdate' = r.h.nupdate
        /\ ret' = r.val
        /\ last' = [op |-> op, self |-> n, other |-> other, mode |-> mode,
                    force |-> force,
                    reg |-> (other \in Nodes /\ InSeq(other, descendants[n])),
                    arg |-> arg, ok |-> r.ok, err |-> r.err]

Call(op, n, other, mode, force, res) ==
    /\ steps < MaxSteps
    /\ Effect(op, n, other, mode, force, Identity, res)

(* n.worldcoords() / n.worldrot() / n.worldpos() *)
Worldcoords ==
    \E n \in Nodes :
        Call("worldcoords", n, None, "", FALSE, WorldCoords(Heap, n))

Translate ==
    \E n \in Nodes, v \in Vecs : \E wrt \in Others(n) :
        Call("translate", n, None, wrt, FALSE, translate(Heap, n, v, wrt))

Rotate ==
    \E n \in Nodes, axis \in Axes, wrt \in {"local", "world"} :
        Call("rotate", n, None, wrt, FALSE, rotate(Heap, n, axis, wrt))

RotateWithMatrix ==
    \E n \in Nodes, m \in Mats : \E wrt \in Others(n) :
        Call("rotate_with_matrix", n, None, wrt, FALSE,
             rotate_with_matrix(Heap, n, m, wrt))

OrientWithMatrix ==
    \E n \in Nodes, m \in Mats, wrt \in {"world"} :
        Call("orient_with_matrix", n, None, wrt, FALSE,
             orient_with_matrix(Heap, n, m, wrt))

Transform ==
    \E n \in Nodes, c \in ArgCoords, wrt \in {"world"} \cup Nodes :
        Call("transform", n, None, wrt, FALSE, transform(Heap, n, c, wrt))

Newcoords ==
    \E n \in Nodes, c \in ArgCoords, rel \in {"local", "world"} :
        Call("newcoords", n, None, rel, FALSE, newcoords(Heap, n, c, rel))

Assoc ==
    \E p \in Nodes, child \in Nodes, a \in AssocArgs :
        /\ p = child => a = <<RelWorld, FALSE>>
        /\ Call("assoc", p, child, a[1].kind, a[2],
                assoc(Heap, p, child, a[1], a[2]))

Dissoc ==
    \E p \in Nodes : \E child \in Others(p) :
        Call("dissoc", p, child, "", FALSE, dissoc(Heap, p, child))

Next ==
    \/ Worldcoords
    \/ Translate
    \/ Rotate
    \/ RotateWithMatrix
    \/ OrientWithMatrix
    \/ Transform
    \/ Newcoords
    \/ Assoc
    \/ Dissoc

Spec == Init /\ [][Next]_vars

(***************************************************************************)
(* Single operations with every kind of argument.  The same objects are    *)
(* constructed; then at most MaxOps calls are made, on the tree nodes and  *)
(* on the plain Coordinates object, with wrt / relative_coords ranging     *)
(* over the tokens, an unknown string and every object.                    *)
(***************************************************************************)
MaxOps == 2

UnknownWrt == "upward"
Wrts == {"local", "parent", "world", UnknownWrt} \cup Objects

OpCall(op, n, other, mode, arg, res) ==
    /\ steps < MaxOps
    /\ Effect(op, n, other, mode, FALSE, arg, res)

ReadAny ==
    \E n \in Objects :
        OpCall("worldcoords", n, None, "", Identity, WorldCoords(Heap, n))

SetRotation ==
    \E n \in Objects, R \in Mats :
        OpCall("set_rotation", n, None, "", Identity, set_rotation(Heap, n, R))

SetTranslation ==
    \E n \in Objects, v \in Vecs \cup {<<1, 0>>} :
        OpCall("set_translation", n, None, "", Identity,
               set_translation(Heap, n, v))

(* obj.transform(c, wrt): c is a given pose or the one a transformation *)
(* call has just returned.                                              *)
TransformAny ==
    \E n \in Objects, wrt \in Wrts,
       c \in ArgCoords \cup (IF last.op = "transformation" /\ last.ok
                              THEN {ret} ELSE {}) :
        OpCall("transform", n, None, wrt, c,
               IF n \in Plain THEN Coordinates_transform(Heap, n, c, wrt)
               ELSE transform(Heap, n, c, wrt))

OpsAxes == {"z", "[0, 0, 1]"}

RotateAny ==
    \E n \in Objects, axis \in OpsAxes, wrt \in Wrts :
        OpCall("rotate", n, None, wrt, Pose(AxisRot(axis), Zero3),
               IF n \in Plain THEN Coordinates_rotate(Heap, n, axis, wrt)
               ELSE rotate(Heap, n, axis, wrt))

RotateWithMatrixAny ==
    \E n \in Objects, mat \in Mats, wrt \in Wrts :
        OpCall("rotate_with_matrix", n, None, wrt, Pose(mat, Zero3),
               IF n \in Plain
               THEN Coordinates_rotate_with_matrix(Heap, n, mat, wrt)
               ELSE rotate_with_matrix(Heap, n, mat, wrt))

TransformationAny ==
    \E n \in Objects, wrt \in Wrts \ {UnknownWrt} : \E c2 \in Objects \ {n} :
        OpCall("transformation", n, c2, wrt, Identity,
               transformation(Heap, n, c2, wrt))

MoveCoordsAny ==
    \E n \in Objects, loc \in Objects : \E target \in Objects \ {n} :
        OpCall("move_coords", n, target, loc, Identity,
               move_coords(Heap, n, target, loc))

(* obj.newcoords(c, relative_coords=rel) *)
NewcoordsAny ==
    \E n \in Objects, c \in ArgCoords, rel \in Wrts :
        OpCall("newcoords", n, None, rel, c,
               IF n \in Plain THEN Coordinates_newcoords(Heap, n, c, rel)
               ELSE newcoords(Heap, n, c, rel))

(* obj.newcoords(rot, pos, relative_coords=rel), pos well-formed or not *)
NewcoordsPosAny ==
    \E n \in Objects, rot \in Mats, pos \in Vecs \cup {<<1, 0>>}, rel \in Wrts :
        OpCall("newcoords", n, None, rel, Pose(rot, pos),
               IF n \in Plain
               THEN Coordinates_newcoords_pos(Heap, n, Pose(rot, pos), rel)
               ELSE newcoords_pos(Heap, n, Pose(rot, pos), rel))

(* obj.translate(v, wrt) *)
TranslateAny ==
    \E n \in Objects, v \in Vecs, wrt \in Wrts :
        OpCall("translate", n, None, wrt, Pose(Eye, v),
               IF n \in Plain THEN Coordinates_translate(Heap, n, v, wrt)
               ELSE translate(Heap, n, v, wrt))

OpsNext ==
    \/ ReadAny
    \/ TranslateAny
    \/ NewcoordsAny
    \/ NewcoordsPosAny
    \/ MoveCoordsAny
    \/ TransformationAny
    \/ RotateAny
    \/ RotateWithMatrixAny
    \/ TransformAny
    \/ SetRotation
    \/ SetTranslation

OpsSpec == Init /\ [][OpsNext]_vars

(***************************************************************************)
(* The queries and the value operations: calls that compute a pose or a    *)
(* vector from their arguments, made on the constructed objects and on     *)
(* given rigid transforms.                                                 *)
(***************************************************************************)
MaxQueries == 2

Rots == {Eye, RotX, RotZ, MatMul(RotX, RotZ)}
PVecs == {Zero3, <<1, 0, 2>>, <<0, -1, 3>>}
Rigid == {Pose(R, v) : R \in Rots, v \in PVecs}

QCall(op, n, other, mode, arg, res) ==
    /\ steps < MaxQueries
    /\ Effect(op, n, other, mode, FALSE, arg, res)

(* Transform.inverse_transformation: a Transform holds a translation and *)
(* a rotation.                                                           *)
Transform_inverse_transformation(T) ==
    LET new_rot == Transpose(T.rot)
    IN  Pose(new_rot, VecNeg(MatVec(new_rot, T.pos)))

(* n.inverse_transformation(dest): three assignments to dest's attributes, *)
(* each reading n's attributes as they are at that moment.                 *)
inverse_transformation_dest(H, n, dest) ==
    LET H1 == [H EXCEPT !.local[dest] = Pose(Transpose(H.local[n].rot), @.pos)]
        H2 == [H1 EXCEPT !.local[dest] =
                   Pose(@.rot, MatVec(H1.local[dest].rot, H1.local[n].pos))]
        H3 == [H2 EXCEPT !.local[dest] = Pose(@.rot, VecNeg(@.pos))]
    IN  Ret(H3, H3.local[dest])

(* T.inverse_transformation() for a Coordinates T with a given pose *)
InverseAny ==
    \E T \in Rigid :
        QCall("inverse_transformation", None, None, "", T,
              Ret(Heap, inverse_transformation(T)))

(* n.inverse_transformation(dest), dest being n itself or another object *)
InverseDest ==
    \E n \in Objects, dest \in Objects :
        QCall("inverse_transformation_dest", n, dest, "", Heap.local[n],
              inverse_transformation_dest(Heap, n, dest))

TransformInverse ==
    \E T \in Rigid :
        QCall("Transform.inverse_transformation", None, None, "", T,
              Ret(Heap, Transform_inverse_transformation(T)))

(* A product that composes its operands as transform_coords does. *)
TransformMulAsCompose(tf_12, tf_23) == transform_coords(tf_12, tf_23)

(* Transform.__mul__(self = tf_12, tf_23) *)
Transform_mul(tf_12, tf_23) ==
    LET rot_13  == MatMul(tf_23.rot, tf_12.rot)
        tran_13 == VecAdd(tf_23.pos, MatVec(tf_23.rot, tf_12.pos))
    IN  Pose(rot_13, tran_13)

(* Transform.transform_vector(vec) for one vector *)
Transform_transform_vector(T, vec) == VecAdd(MatVec(T.rot, vec), T.pos)

(* A * B for two Transforms *)
TransformMul ==
    \E A \in Rigid, B \in Rigid :
        QCall("Transform.__mul__", None, None, "", [a |-> A, b |-> B],
              Ret(Heap, Transform_mul(A, B)))

(***************************************************************************)
(* lerp_coordinates(c1, c2, t) and slerp_coordinates(c1, c2, t).  t is the *)
(* rational num / TDen.  The position returned is kept in units of 1/TDen; *)
(* the rotation is interpolated between the quaternions of the two LOCAL   *)
(* rotations, which is exact at the two ends and kept as a term between.   *)
(***************************************************************************)
TDen == 2
Ts == (0 - 1)..(TDen + 1)

(* A range test that also refuses the two ends of the interval. *)
InRangeOpen(num) == 0 < num /\ num < TDen

(* 0.0 <= t <= 1.0 *)
InRange(num) == 0 <= num /\ num <= TDen

(* pos1 + t * (pos2 - pos1), times TDen *)
InterpPos(pos1, pos2, num) ==
    <<TDen * pos1[1] + num * (pos2[1] - pos1[1]),
      TDen * pos1[2] + num * (pos2[2] - pos1[2]),
      TDen * pos1[3] + num * (pos2[3] - pos1[3])>>

(* quaternion2matrix of the normalised interpolated quaternion *)
InterpRot(kind, R1, R2, num) ==
    IF num = 0 \/ R1 = R2 THEN R1
    ELSE IF num = TDen THEN R2
    ELSE <<kind, R1, R2, num>>

Interpolate(kind, H, c1, c2, num) ==
    IF ~InRange(num) THEN Raise(H, "ValueError")
    ELSE LET r1 == WorldCoords(H, c1)
         IN  IF ~r1.ok THEN Raise(r1.h, r1.err)
             ELSE LET r2 == WorldCoords(r1.h, c2)
                  IN  IF ~r2.ok THEN Raise(r2.h, r2.err)
                      ELSE Ret(r2.h,
                               Pose(InterpRot(kind, r2.h.local[c1].rot,
                                              r2.h.local[c2].rot, num),
                                    InterpPos(r1.val.pos, r2.val.pos, num)))

lerp_coordinates(H, c1, c2, num) == Interpolate("lerp", H, c1, c2, num)

slerp_coordinates(H, c1, c2, num) == Interpolate("slerp", H, c1, c2, num)

Lerp ==
    \E c1 \in Objects, c2 \in Objects, num \in Ts :
        QCall("lerp_coordinates", c1, c2, "", [t |-> num],
              lerp_coordinates(Heap, c1, c2, num))

Slerp ==
    \E c1 \in Objects, c2 \in Objects, num \in Ts :
        QCall("slerp_coordinates", c1, c2, "", [t |-> num],
              slerp_coordinates(Heap, c1, c2, num))

(***************************************************************************)
(* a.difference_position(coords, translation_axis)                         *)
(***************************************************************************)
TranslationAxes == {"True", "False", "x", "yz"}

(* convert_to_axis_vector: 1 marks a component that is left out *)
AxisVector(axis) ==
    IF axis = "True" THEN <<0, 0, 0>>
    ELSE IF axis = "False" THEN <<1, 1, 1>>
    ELSE IF axis = "x" THEN <<1, 0, 0>>
    ELSE <<0, 1, 1>>

(* An inverse transform that rotates back without removing the origin. *)
InverseRotateOnly(c, vec) == MatVec(Transpose(c.rot), vec)

(* Coordinates.inverse_transform_vector on the pose c, for one vector *)
inverse_transform_vector(c, vec) ==
    VecAdd(MatVec(Transpose(c.rot), vec),
           VecNeg(MatVec(Transpose(c.rot), c.pos)))

(* dif_pos[translation_axis == 1] = 0.0 *)
ZeroWhereOne(v, mask) ==
    <<IF mask[1] = 1 THEN 0 ELSE v[1],
      IF mask[2] = 1 THEN 0 ELSE v[2],
      IF mask[3] = 1 THEN 0 ELSE v[3]>>

difference_position(H, n, coords, axis) ==
    LET r2 == WorldCoords(H, coords)
    IN  IF ~r2.ok THEN Raise(r2.h, r2.err)
        ELSE LET r1 == WorldCoords(r2.h, n)
             IN  IF ~r1.ok THEN Raise(r1.h, r1.err)
                 ELSE Ret(r1.h,
                          ZeroWhereOne(inverse_transform_vector(r1.val, r2.val.pos),
                                       AxisVector(axis)))

DifferencePosition ==
    \E n \in Objects, coords \in Objects, axis \in TranslationAxes :
        QCall("difference_position", n, coords, axis, Identity,
              difference_position(Heap, n, coords, axis))

QueryNext ==
    \/ InverseAny
    \/ DifferencePosition
    \/ Lerp
    \/ Slerp
    \/ TransformMul
    \/ InverseDest
    \/ TransformInverse

QuerySpec == Init /\ [][QueryNext]_vars

(***************************************************************************)
(* Notions the claims are stated with                                      *)
(***************************************************************************)
Local(n) == Pose(rotation[n], translation[n])

HeapVars == <<parent, descendants, changed, rotation, translation, worldcoords>>

(* The parent links above n end at a node without parent. *)
RECURSIVE ChainEnds(_, _, _)
ChainEnds(H, n, fuel) ==
    IF H.parent[n] = None THEN TRUE
    ELSE IF fuel = 0 THEN FALSE
    ELSE ChainEnds(H, H.parent[n], fuel - 1)

AcyclicIn(H) == \A n \in Nodes : ChainEnds(H, n, Cardinality(Nodes))

Acyclic == AcyclicIn(Heap)

(* The product of the local poses along n's ancestor chain. *)
RECURSIVE ChainPose(_, _, _)
ChainPose(H, n, fuel) ==
    IF H.parent[n] = None \/ fuel = 0 THEN H.local[n]
    ELSE LET up == ChainPose(H, H.parent[n], fuel - 1)
         IN  transform_coords(up, H.local[n])

TrueWorld(H, n) == ChainPose(H, n, Cardinality(Nodes))

(* x is n or has n among its ancestors. *)
RECURSIVE Below(_, _, _)
Below(x, n, fuel) ==
    IF x = n THEN TRUE
    ELSE IF parent[x] = None \/ fuel = 0 THEN FALSE
    ELSE Below(parent[x], n, fuel - 1)

Subtree(n) == {x \in Nodes : Below(x, n, Cardinality(Nodes))}

(* What x.worldcoords() would answer in this state. *)
ReadOf(x) == WorldCoords(Heap, x)

(* Reads of x before and after a step answer the same pose. *)
SameRead(x) ==
    \A before \in {ReadOf(x)} : \A H2 \in {Heap'} :
        before.ok =>
            \A after \in {WorldCoords(H2, x)} :
                after.ok /\ after.val = before.val

Count(x, s) == Cardinality({i \in 1..Len(s) : s[i] = x})

Mutators == {"translate", "rotate", "rotate_with_matrix", "orient_with_matrix",
             "transform", "newcoords"}

Setters == {"set_rotation", "set_translation"}

(***************************************************************************)
(* C1  Cache correctness.  On nodes whose parent links form an acyclic     *)
(* tree, no call breaks: every node whose _changed is False caches the     *)
(* product of the local poses along its ancestor chain (its own local pose *)
(* when it has no parent), so every read returns that product.             *)
(***************************************************************************)
CacheOKIn(H) == \A n \in Nodes : ~H.changed[n] => H.world[n] = TrueWorld(H, n)

CacheOK == CacheOKIn(Heap)

CacheCorrect ==
    [][(Acyclic /\ CacheOK) =>
          \A H2 \in {Heap'} :
              /\ CacheOKIn(H2)
              /\ (last'.op = "worldcoords" /\ AcyclicIn(H2)) =>
                    /\ last'.ok /\ ~H2.changed[last'.self]
                    /\ H2.world[last'.self] = TrueWorld(H2, last'.self)]_vars

(* A read that recomputed the node and its parent on an acyclic tree. *)
CacheCorrectWitness ==
    /\ last.op = "worldcoords" /\ last.ok /\ nupdate >= 2
    /\ parent[last.self] # None
    /\ steps >= 2
    /\ Acyclic /\ CacheOK

(***************************************************************************)
(* C2  Acyclicity: after any sequence of assoc and dissoc calls no node is *)
(* its own ancestor.                                                       *)
(***************************************************************************)
Acyclicity == Acyclic

AssocKeepsWorldPose ==
    [][(last'.op = "assoc" /\ last'.ok /\ last'.mode = "world") =>
          \A x \in Subtree(last'.other) : SameRead(x)]_vars

(***************************************************************************)
(* C5  parent.dissoc(child) on a registered child leaves the world pose of *)
(* child and of its subtree unchanged and makes child's local pose that    *)
(* world pose; so assoc(child, 'world') followed by dissoc(child) gives    *)
(* child its original world pose back.                                     *)
(***************************************************************************)
DissocKeepsWorldPose ==
    [][\A c \in Nodes :
          (last'.op = "dissoc" /\ last'.reg /\ last'.other = c) =>
              /\ last'.ok
              /\ parent'[c] = None
              /\ Local(c)' = ReadOf(c).val
              /\ \A x \in Subtree(c) : SameRead(x)]_vars

AssocRefuses ==
    [][last'.op = "assoc" =>
          LET p == last'.self
              child == last'.other
              refused == p = child \/ (parent[child] # None /\ ~last'.force)
          IN  /\ refused => ~last'.ok
              /\ p = child => last'.err = "ValueError"
              /\ (p # child /\ refused) => last'.err = "RuntimeError"
              /\ refused =>
                    UNCHANGED <<parent, descendants, changed, rotation,
                                translation>>]_vars

AssocRefusesWitness ==
    /\ last.op = "assoc" /\ ~last.ok /\ last.err = "RuntimeError"
    /\ parent[last.other] \notin {None, last.self}

(***************************************************************************)
(* C8  Whenever p.assoc(child) returns without raising, child.parent is p  *)
(* and child appears exactly once in p.descendants.                        *)
(***************************************************************************)
AssocRegisters ==
    (last.op = "assoc" /\ last.ok) =>
        /\ parent[last.other] = last.self
        /\ Count(last.other, descendants[last.self]) = 1

(***************************************************************************)
(* C9  p.dissoc(child) with child not in p.descendants raises nothing and  *)
(* changes nothing; a second dissoc(child) right after a first changes     *)
(* nothing either.                                                         *)
(***************************************************************************)
DissocAbsentNoop ==
    [][last'.op = "dissoc" =>
          /\ ~last'.reg => (last'.ok /\ UNCHANGED HeapVars)
          /\ (last.op = "dissoc" /\ last.ok /\ last.self = last'.self
                /\ last.other = last'.other) =>
                (last'.ok /\ ~last'.reg /\ UNCHANGED HeapVars)]_vars

DissocAbsentNoopWitness ==
    /\ last.op = "dissoc" /\ last.ok /\ ~last.reg
    /\ parent[last.other] # None

(***************************************************************************)
(* C10  A world-pose read of a CLEAN node recomputes nothing and changes   *)
(* no state of any node; a second read right after a first returns the    *)
(* same value and recomputes nothing.                                      *)
(***************************************************************************)
ReadCleanNoEffect ==
    [][\A n \in Nodes :
          (last'.op = "worldcoords" /\ last'.self = n) =>
              /\ ~changed[n] =>
                    (last'.ok /\ nupdate' = 0 /\ UNCHANGED HeapVars)
              /\ (last.op = "worldcoords" /\ last.ok /\ last.self = n) =>
                    /\ last'.ok /\ nupdate' = 0 /\ UNCHANGED HeapVars
                    /\ ReadOf(n).val = worldcoords[n]]_vars

ReadCleanNoEffectWitness ==
    /\ last.op = "worldcoords" /\ last.ok /\ nupdate = 0
    /\ parent[last.self] # None /\ ~changed[last.self]

(***************************************************************************)
(* C11  Every local mutation of a tree node moves it to DIRTY: after a     *)
(* translate, rotate, transform, newcoords, or an assignment to its        *)
(* rotation or translation property that returned, the node's _changed is  *)
(* True, and its next world-pose read gives the product of the local       *)
(* poses up its ancestor chain.                                            *)
(***************************************************************************)
MutationDirties ==
    [][\A n \in Nodes :
          (last'.op \in Mutators \cup Setters /\ last'.ok /\ last'.self = n) =>
              \A H2 \in {Heap'} :
                  /\ H2.changed[n]
                  /\ AcyclicIn(H2) =>
                        WorldCoords(H2, n).val = TrueWorld(H2, n)]_vars

(***************************************************************************)
(* C12  transform(c, wrt=ref) with an object ref applies c in ref's frame: *)
(* the world pose of self becomes Wref . c . inverse(Wref) . Wself, with   *)
(* Wref the WORLD pose of ref, for plain objects and tree nodes at any     *)
(* depth; with ref = self.parent the new local pose is c . local, as with  *)
(* wrt='parent'.                                                           *)
(***************************************************************************)
InFrame(Wref, c, Wself) ==
    transform_coords(Wref,
        transform_coords(c,
            transform_coords(inverse_transformation(Wref), Wself)))

TransformInFrame ==
    [][\A n \in Objects, ref \in Objects :
          (last'.op = "transform" /\ last'.ok /\ last'.self = n
             /\ last'.mode = ref) =>
              \A Wself \in {ReadOf(n)}, Wref \in {ReadOf(ref)}, H2 \in {Heap'} :
                  (Wself.ok /\ Wref.ok) =>
                      \A after \in {WorldCoords(H2, n)} :
                          /\ after.ok
                          /\ after.val = InFrame(Wref.val, last'.arg, Wself.val)
                          /\ ref = parent[n] =>
                                H2.local[n] =
                                    transform_coords(last'.arg, Local(n))]_vars

(***************************************************************************)
(* C13  rotate(theta, axis, wrt) follows one rule on both classes and for  *)
(* a named axis as for the explicit axis vector: wrt='local' post-         *)
(* multiplies the local rotation (R' = R.D), wrt='parent' pre-multiplies   *)
(* it (R' = D.R); D (last.arg.rot) is the rotation by theta about axis.    *)
(***************************************************************************)
RotateRule ==
    [][\A n \in Objects :
          (last'.op = "rotate" /\ last'.ok /\ last'.self = n) =>
              /\ last'.mode = "local" =>
                    rotation'[n] = MatMul(rotation[n], last'.arg.rot)
              /\ last'.mode = "parent" =>
                    rotation'[n] = MatMul(last'.arg.rot, rotation[n])]_vars

(***************************************************************************)
(* C14  rotate and rotate_with_matrix never change position: for every wrt *)
(* the local translation of the rotated object is unchanged, and for a     *)
(* tree node the world position read after the call is the one read        *)
(* before it.                                                              *)
(***************************************************************************)
RotateKeepsPosition ==
    [][\A n \in Objects :
          (last'.op \in {"rotate", "rotate_with_matrix"} /\ last'.self = n) =>
              /\ translation'[n] = translation[n]
              /\ n \in Nodes =>
                    \A before \in {ReadOf(n)}, H2 \in {Heap'} :
                        before.ok =>
                            \A after \in {WorldCoords(H2, n)} :
                                after.ok /\ after.val.pos = before.val.pos]_vars

(***************************************************************************)
(* C15  transformation and transform are inverse under the same wrt: after *)
(* D = a.transformation(b, wrt) and a.transform(D, wrt), a's world pose is *)
(* b's, for wrt 'local', 'parent', 'world' or an object, a a plain object  *)
(* or a tree node with a parent (b outside a's subtree); for wrt='local',  *)
(* compose(a's world pose, D) is b's world pose.                           *)
(***************************************************************************)
TransformationInverts ==
    [][\A a \in Objects, b \in Objects :
          /\ (last'.op = "transformation" /\ last'.ok /\ last'.self = a
                /\ last'.other = b /\ last'.mode = "local") =>
                \A H2 \in {Heap'} :
                    transform_coords(WorldCoords(H2, a).val, ret')
                        = WorldCoords(H2, b).val
          /\ (last.op = "transformation" /\ last.ok /\ last.self = a
                /\ last.other = b /\ last.mode # UnknownWrt
                /\ last'.op = "transform" /\ last'.self = a
                /\ last'.mode = last.mode /\ last'.arg = ret
                /\ (a \in Plain \/ parent[a] # None)
                /\ b \notin Subtree(a)) =>
                \A target \in {ReadOf(b)}, H2 \in {Heap'} :
                    /\ last'.ok
                    /\ WorldCoords(H2, a).val = target.val]_vars

(***************************************************************************)
(* C16  After root.move_coords(target, local) returns, local being root    *)
(* itself or a node attached below root (and target outside root's         *)
(* subtree), local.worldcoords() equals target.worldcoords().              *)
(***************************************************************************)
MoveCoordsAligns ==
    [][\A root \in Objects, target \in Objects, loc \in Objects :
          (last'.op = "move_coords" /\ last'.ok /\ last'.self = root
             /\ last'.other = target /\ last'.mode = loc
             /\ (loc = root \/ loc \in Subtree(root))
             /\ target # root /\ target \notin Subtree(root)) =>
              \A H2 \in {Heap'} :
                  \A got \in {WorldCoords(H2, loc)}, want \in {WorldCoords(H2, target)} :
                      got.ok /\ want.ok /\ got.val = want.val]_vars

(***************************************************************************)
(* C17  node.newcoords(c, relative_coords='world'), in either form of the  *)
(* call, leaves node.worldcoords() equal to c: on a plain Coordinates, on  *)
(* a parentless node and on a node under a parent with any world pose.     *)
(***************************************************************************)
NewcoordsWorld ==
    [][\A n \in Objects :
          (last'.op = "newcoords" /\ last'.ok /\ last'.self = n
             /\ last'.mode = "world") =>
              \A H2 \in {Heap'} : \A after \in {WorldCoords(H2, n)} :
                  after.ok /\ after.val = last'.arg]_vars

(* A node under a parent that is away from the origin was given a world *)
(* pose, which differs from the local pose stored for it.               *)
NewcoordsWorldWitness ==
    /\ last.op = "newcoords" /\ last.ok /\ last.mode = "world"
    /\ last.self \in Nodes
    /\ \E n \in Nodes :
          /\ n = last.self
          /\ parent[n] # None
          /\ Local(n) # last.arg
          /\ ReadOf(n).val = last.arg

(***************************************************************************)
(* C18  newcoords(c, relative_coords=ref) with an object ref (outside the  *)
(* subtree of the object moved) leaves the object's world pose equal to    *)
(* compose(ref's world pose, c), on a plain Coordinates, on a parentless   *)
(* node and on a node with a parent alike.                                 *)
(***************************************************************************)
NewcoordsRelative ==
    [][\A n \in Objects, ref \in Objects :
          (last'.op = "newcoords" /\ last'.ok /\ last'.self = n
             /\ last'.mode = ref /\ ref # n /\ ref \notin Subtree(n)) =>
              \A Wref \in {ReadOf(ref)}, H2 \in {Heap'} :
                  Wref.ok => \A after \in {WorldCoords(H2, n)} :
                      /\ after.ok
                      /\ after.val = transform_coords(Wref.val, last'.arg)]_vars

(***************************************************************************)
(* C19  translate, rotate, rotate_with_matrix and transform called with a  *)
(* wrt that is neither 'local', 'parent', 'world' nor an object raise, on  *)
(* Coordinates and on CascadedCoords, and leave the object's pose as it    *)
(* was.                                                                    *)
(***************************************************************************)
UnknownWrtRaises ==
    [][\A n \in Objects :
          (last'.op \in {"translate", "rotate", "rotate_with_matrix", "transform"}
             /\ last'.self = n /\ last'.mode = UnknownWrt) =>
              /\ ~last'.ok
              /\ rotation'[n] = rotation[n]
              /\ translation'[n] = translation[n]]_vars

(***************************************************************************)
(* C20  No call changes state before failing: when newcoords, a rotation   *)
(* or translation assignment, translate, rotate, rotate_with_matrix or     *)
(* transform raises, the rotation, translation, parent link, registry and  *)
(* dirty flag of every object are what they were before the call; so       *)
(* newcoords(rot, pos) with a valid rot and a malformed pos leaves the     *)
(* rotation alone.                                                         *)
(***************************************************************************)
FailureLeavesState ==
    [][(last'.op \in Mutators \cup Setters /\ ~last'.ok) =>
          /\ rotation' = rotation
          /\ translation' = translation
          /\ parent' = parent
          /\ descendants' = descendants
          /\ changed' = changed]_vars

(***************************************************************************)
(* C21  Group inverse law: for every rigid transform T, composing T with   *)
(* its inverse on either side gives the identity pose; for                 *)
(* Coordinates.inverse_transformation, for Transform.inverse_transformation *)
(* and when the inverse is written into T itself (dest = T).               *)
(***************************************************************************)
IsInverseOf(inv, T) ==
    /\ transform_coords(T, inv) = Identity
    /\ transform_coords(inv, T) = Identity

GroupInverse ==
    /\ last.op \in {"inverse_transformation", "Transform.inverse_transformation"}
          => IsInverseOf(ret, last.arg)
    /\ (last.op = "inverse_transformation_dest" /\ last.self = last.other)
          => \A n \in Objects : last.self = n =>
                 IsInverseOf(ret, last.arg) /\ Local(n) = ret

(* An object with a rotation and a translation was inverted into itself. *)
GroupInverseWitness ==
    /\ last.op = "inverse_transformation_dest" /\ last.self = last.other
    /\ last.arg.rot # Eye /\ last.arg.pos # Zero3
    /\ ret # last.arg

(***************************************************************************)
(* C22  Transform.__mul__ chains left to right: (A * B) applied to a       *)
(* vector is B applied to (A applied to the vector); A * B has rotation    *)
(* B.R A.R and translation B.t + B.R A.t, which is transform_coords(B, A), *)
(* the reverse operand order of transform_coords and Coordinates.__mul__.  *)
(***************************************************************************)
TransformMulChains ==
    last.op = "Transform.__mul__" =>
        \A A \in {last.arg.a}, B \in {last.arg.b} :
            /\ \A v \in PVecs :
                  Transform_transform_vector(ret, v)
                      = Transform_transform_vector(B, Transform_transform_vector(A, v))
            /\ ret.rot = MatMul(B.rot, A.rot)
            /\ ret.pos = VecAdd(B.pos, MatVec(B.rot, A.pos))
            /\ ret = transform_coords(B, A)

(* Two transforms were multiplied whose product depends on the order. *)
TransformMulChainsWitness ==
    /\ last.op = "Transform.__mul__"
    /\ ret # transform_coords(last.arg.a, last.arg.b)
    /\ last.arg.a.rot # Eye /\ last.arg.b.rot # Eye

(***************************************************************************)
(* C23  lerp_coordinates and slerp_coordinates raise a range error for     *)
(* every t outside [0, 1] and for no t inside it, and neither changes c1   *)
(* or c2: their local poses, links and the world poses they answer stay.   *)
(***************************************************************************)
InterpolationRange ==
    [][\A c1 \in Objects, c2 \in Objects :
          (last'.op \in {"lerp_coordinates", "slerp_coordinates"}
             /\ last'.self = c1 /\ last'.other = c2) =>
              /\ (last'.arg.t < 0 \/ last'.arg.t > TDen)
                    => (~last'.ok /\ last'.err = "ValueError")
              /\ (0 <= last'.arg.t /\ last'.arg.t <= TDen) => last'.ok
              /\ rotation' = rotation /\ translation' = translation
              /\ parent' = parent /\ descendants' = descendants
              /\ SameRead(c1) /\ SameRead(c2)]_vars

(* An interpolation at an end of the interval between two nodes at *)
(* different places, one of them below a parent, has returned.     *)
InterpolationRangeWitness ==
    /\ last.op \in {"lerp_coordinates", "slerp_coordinates"}
    /\ last.ok /\ last.arg.t \in {0, TDen}
    /\ \E c1 \in Nodes, c2 \in Objects :
          /\ last.self = c1 /\ last.other = c2
          /\ parent[c1] # None
          /\ ReadOf(c1).val.pos # ReadOf(c2).val.pos

(***************************************************************************)
(* C24  Every world-pose read terminates in every state reachable through  *)
(* assoc, dissoc and the pose mutators: the recursion of update() through  *)
(* the parent links always ends.                                           *)
(***************************************************************************)
ReadsTerminate == \A n \in Nodes : Terminates(Heap, n)

(***************************************************************************)
(* C25  a.difference_position(b, translation_axis) returns b's world       *)
(* position expressed in a's world frame, with the components that         *)
(* translation_axis selects set to zero; for plain objects and tree nodes  *)
(* at any depth.  True zeroes nothing, False zeroes every component.       *)
(***************************************************************************)
Zeroed(axis) ==
    IF axis = "True" THEN {}
    ELSE IF axis = "False" THEN {1, 2, 3}
    ELSE IF axis = "x" THEN {1}
    ELSE {2, 3}

DifferencePositionInWorld ==
    [][\A a \in Objects, b \in Objects :
          (last'.op = "difference_position" /\ last'.self = a /\ last'.other = b) =>
              \A Wa \in {ReadOf(a)}, Wb \in {ReadOf(b)} :
                  \A d \in {transform_coords(inverse_transformation(Wa.val),
                                             Pose(Eye, Wb.val.pos)).pos} :
                      /\ last'.ok
                      /\ \A i \in 1..3 :
                            ret'[i] = IF i \in Zeroed(last'.mode) THEN 0 ELSE d[i]
                      /\ last'.mode = "True" => ret' = d
                      /\ last'.mode = "False" => ret' = Zero3]_vars

(* The difference between two nodes that both sit below a parent, the  *)
(* first deeper than the second, with one component left out and a      *)
(* non-zero one kept.                                                   *)
DifferencePositionWitness ==
    /\ last.op = "difference_position" /\ last.ok /\ last.mode = "x"
    /\ \E a \in Nodes, b \in Nodes :
          /\ last.self = a /\ last.other = b /\ a # b
          /\ parent[a] # None /\ parent[a] # b /\ parent[parent[a]] # None
          /\ ret # Zero3

OnChainOf(n) == {x \in Nodes : Below(n, x, Cardinality(Nodes))}

ReadCleansChain ==
    [][\A n \in Nodes :
          (last'.op = "worldcoords" /\ last'.ok /\ last'.self = n) =>
              \A x \in Nodes :
                  IF x \in OnChainOf(n) THEN ~changed'[x]
                  ELSE changed'[x] = changed[x] /\ worldcoords'[x] = worldcoords[x]]_vars

(* A read of a dirty node below a dirty parent returned, while another *)
(* node outside the chain stayed dirty.                                *)
ReadCleansChainWitness ==
    /\ last.op = "worldcoords" /\ last.ok
    /\ \E n \in Nodes, x \in Nodes :
          /\ last.self = n /\ parent[n] # None
          /\ nupdate >= 2
          /\ x \notin OnChainOf(n) /\ changed[x]

(***************************************************************************)
(* C28  Registry/parent consistency: in every state reachable through      *)
(* construction, assoc (with or without force) and dissoc, a node c is in  *)
(* p.descendants if and only if c.parent is p; so every node is registered *)
(* in at most one descendants list.                                        *)
(***************************************************************************)
RegistryMatchesParent ==
    /\ \A c \in Nodes, p \in Nodes : InSeq(c, descendants[p]) <=> parent[c] = p
    /\ \A c \in Nodes :
          Cardinality({p \in Nodes : InSeq(c, descendants[p])}) <= 1

(***************************************************************************)
(* C29  Cache transparency: the local poses that translate, rotate,        *)
(* transform, newcoords, assoc or dissoc leave depend only on the local    *)
(* poses and the links before the call, not on which nodes are DIRTY.  The *)
(* same call made in a state and in the state that differs from it only by *)
(* every node having been read (all CLEAN, caches valid) leaves the same   *)
(* local poses; transform(c, wrt=X) with X the node itself or a node below *)
(* it included.                                                            *)
(***************************************************************************)
RECURSIVE ReadAll(_, _)
ReadAll(H, i) ==
    IF i > Len(NodeOrder) THEN H
    ELSE ReadAll(WorldCoords(H, NodeOrder[i]).h, i + 1)

SameLocals(r1, r2) == r1.ok = r2.ok /\ r1.h.local = r2.h.local

CacheTransparent ==
    (CacheOK /\ Acyclic) =>
        \A H1 \in {Heap}, H2 \in {ReadAll(Heap, 1)} : \A n \in Nodes :
            /\ \A v \in Vecs, wrt \in Wrts :
                  SameLocals(translate(H1, n, v, wrt), translate(H2, n, v, wrt))
            /\ \A axis \in OpsAxes, wrt \in Wrts :
                  SameLocals(rotate(H1, n, axis, wrt), rotate(H2, n, axis, wrt))
            /\ \A c \in ArgCoords, wrt \in Wrts :
                  /\ SameLocals(newcoords(H1, n, c, wrt), newcoords(H2, n, c, wrt))
                  /\ SameLocals(transform(H1, n, c, wrt), transform(H2, n, c, wrt))
            /\ \A child \in Nodes :
                  /\ SameLocals(dissoc(H1, n, child), dissoc(H2, n, child))
                  /\ \A a \in AssocArgs :
                        SameLocals(assoc(H1, n, child, a[1], a[2]),
                                   assoc(H2, n, child, a[1], a[2]))

(***************************************************************************)
(* C30  translate is expressed in the frame named by wrt for tree nodes    *)
(* too: on a node with a parent, translate(v, wrt='world') changes the     *)
(* node's worldpos() by exactly v, and translate(v, wrt=ref) changes it by *)
(* ref.worldrot() applied to v.                                            *)
(***************************************************************************)
TranslateInFrame ==
    [][\A n \in Nodes :
          (last'.op = "translate" /\ last'.ok /\ last'.self = n
             /\ parent[n] # None) =>
              \A before \in {ReadOf(n)}, H2 \in {Heap'}, v \in {last'.arg.pos} :
                  before.ok => \A after \in {WorldCoords(H2, n)} :
                      /\ after.ok
                      /\ last'.mode = "world" =>
                            after.val.pos = VecAdd(before.val.pos, v)
                      /\ \A ref \in Objects :
                            (last'.mode = ref /\ ref \notin Subtree(n)
                               /\ ref # parent[n]) =>
                                \A Wref \in {ReadOf(ref)} :
                                    after.val.pos
                                        = VecAdd(before.val.pos,
                                                 MatVec(Wref.val.rot, v))]_vars

====
